---- MODULE Spec2Model ----
(***************************************************************************)
(* Cache-friendly in-place FFT (projects/cache-friendly-fft).              *)
(*                                                                         *)
(* Arrays are modelled as functions over 0..size-1 (the flat buffer) and   *)
(* numpy views as an offset, a shape and strides over that buffer.         *)
(* Complex values are modelled exactly, as elements of the cyclotomic ring *)
(* Z[w], w = exp(-2*pi*i/RootOrder): an element is the tuple of its        *)
(* integer coefficients on 1, w, ..., w^(RingDim-1), and w^RingDim = -1.   *)
(* A raised Python exception is the field err of the threaded state; every *)
(* operator returns its argument unchanged once err is set.                *)
(***************************************************************************)
EXTENDS Integers, Sequences, FiniteSets, TLC

VARIABLES
  pc,          \* "ready" before the call under study, "done" after it
  x,           \* the caller's array: [shape |-> tuple, data |-> [0..size-1 -> value]]
  scratch,     \* the scratch array: [none |-> BOOLEAN, data |-> function]
  res,         \* the array fft returned: [none |-> BOOLEAN, ref |-> name, data |-> function]
  err,         \* the exception the last call raised, "ok" when it returned
  hist,        \* the calls made so far: <<[op, x, scratch]>>, the arrays as they were before
  junk,        \* contents of the memory an uninitialised allocation hands out
  lb_n,        \* argument of _scrach_length / local lb_n of fft (-1: none)
  scratch_len, \* result of _scrach_length / local scratch_len of fft (-1: none)
  ghost        \* instrumentation of the last call

vars ==
  <<pc, x, scratch, res, err, hist, junk, lb_n, scratch_len, ghost>>

-----------------------------------------------------------------------------
(* Bounds *)

\* fft is called on arrays of length 0 .. 2^MaxLb
MaxLb ==
  5

\* transpose_square is called on shapes (n, n_, m), n and n_ in 0 .. 2^MaxLbDim
MaxLbDim ==
  2

\* ... and m in 0 .. MaxGroup
MaxGroup ==
  2

\* _interleave/_deinterleave are called on arrays of length 0 .. 2*MaxHalfLen+1
MaxHalfLen ==
  3

\* ... at most MaxCalls times in a row on the same arrays
MaxCalls ==
  2

\* _scrach_length is called on lb_n in 0 .. MaxScratchLb
MaxScratchLb ==
  60

-----------------------------------------------------------------------------
(* Integer helpers *)

RECURSIVE Pow2(_)
\* 1 << k
Pow2(k) ==
  IF k <= 0 THEN 1 ELSE 2 * Pow2(k - 1)

RECURSIVE bit_length(_)
\* int.bit_length() of a non-negative integer
bit_length(n) ==
  IF n = 0 THEN 0 ELSE 1 + bit_length(n \div 2)

\* util.lb_exact: [err, val]; raises ValueError unless n is a power of two
lb_exact(n) ==
  LET lb == bit_length(n) - 1
  IN  IF lb < 0 \/ n # Pow2(lb)
        THEN [err |-> "ValueError: not a power of 2", val |-> -1]
        ELSE [err |-> "ok", val |-> lb]

-----------------------------------------------------------------------------
(* The threaded state of a call and numpy views *)

NoArray ==
  [none |-> TRUE, data |-> <<>>]

\* the state threaded through a call: the buffer the views are over, the
\* scratch array, the pending exception, and the instrumentation
\*   maxHalf : the largest half-length passed to _interleave/_deinterleave
\*   rbw     : a scratch cell was read before the same call wrote it
\*   stale   : _interleave read a second-half position of x that an earlier
\*             iteration had overwritten
\*   core    : _fft_inplace was entered
\*   w, ow   : the scratch cells, and the positions of x, that the running
\*             _interleave/_deinterleave call has written so far
Machine(data, scr) ==
  [data |-> data, scratch |-> scr, err |-> "ok",
   maxHalf |-> 0, rbw |-> FALSE, stale |-> FALSE, core |-> FALSE,
   w |-> {}, ow |-> {}]

Raise(st, e) ==
  [st EXCEPT !.err = e]

NoGhost ==
  [maxHalf |-> 0, rbw |-> FALSE, stale |-> FALSE, core |-> FALSE]

GhostOf(st) ==
  [maxHalf |-> st.maxHalf, rbw |-> st.rbw, stale |-> st.stale, core |-> st.core]

\* a C-contiguous view of shape `shape` starting at offset off
View(off, shape) ==
  [off |-> off, shape |-> shape,
   s0 |-> IF Len(shape) = 3 THEN shape[2] * shape[3] ELSE 0,
   s1 |-> IF Len(shape) = 3 THEN shape[3] ELSE 0]

\* a[r0:r1, c0:c1] of a view of rank 3: same strides, moved offset
Slice(a, r0, r1, c0, c1) ==
  [off |-> a.off + r0 * a.s0 + c0 * a.s1,
   shape |-> <<r1 - r0, c1 - c0, a.shape[3]>>,
   s0 |-> a.s0, s1 |-> a.s1]

-----------------------------------------------------------------------------
(* transpose.py *)

RECURSIVE SwapGroup(_, _, _, _, _)
\* for i in range(m): a[i], b[i] = b[i], a[i]   (a = a[0, 0], b = b[0, 0])
SwapGroup(st, aoff, boff, m, i) ==
  IF i >= m THEN st
  ELSE LET bi == st.data[boff + i]
           ai == st.data[aoff + i]
           d1 == [st.data EXCEPT ![aoff + i] = bi]
           d2 == [d1 EXCEPT ![boff + i] = ai]
       IN  SwapGroup([st EXCEPT !.data = d2], aoff, boff, m, i + 1)

RECURSIVE _swap_transpose_square(_, _, _)
\* mutant: the off-diagonal quadrants of a are paired with the same
\* quadrants of b, not with the mirrored ones
_swap_transpose_square_unpaired(st, a, b) ==
  IF st.err # "ok" THEN st
  ELSE
    LET n == a.shape[1]
        m == a.shape[3]
        half_n == n \div 2
    IN  IF n = 0 THEN st
        ELSE IF n = 1 THEN SwapGroup(st, a.off, b.off, m, 0)
        ELSE
          LET s1 == _swap_transpose_square(st,
                      Slice(a, 0, half_n, 0, half_n), Slice(b, 0, half_n, 0, half_n))
              s2 == _swap_transpose_square(s1,
                      Slice(a, 0, half_n, half_n, n), Slice(b, 0, half_n, half_n, n))
              s3 == _swap_transpose_square(s2,
                      Slice(a, half_n, n, 0, half_n), Slice(b, half_n, n, 0, half_n))
          IN  _swap_transpose_square(s3,
                      Slice(a, half_n, n, half_n, n), Slice(b, half_n, n, half_n, n))

_swap_transpose_square(st, a, b) ==
  IF st.err # "ok" THEN st
  ELSE IF Len(a.shape) # 3 \/ Len(b.shape) # 3 THEN Raise(st, "AssertionError")
  ELSE
    LET n == a.shape[1]
        m == a.shape[3]
        half_n == n \div 2
    IN  IF ~(n = a.shape[2] /\ n = b.shape[1] /\ n = b.shape[2])
          THEN Raise(st, "AssertionError")
        ELSE IF m # b.shape[3] THEN Raise(st, "AssertionError")
        ELSE IF n = 0 THEN st
        ELSE IF n = 1 THEN SwapGroup(st, a.off, b.off, m, 0)
        ELSE
          LET s1 == _swap_transpose_square(st,
                      Slice(a, 0, half_n, 0, half_n), Slice(b, 0, half_n, 0, half_n))
              s2 == _swap_transpose_square(s1,
                      Slice(a, 0, half_n, half_n, n), Slice(b, half_n, n, 0, half_n))
              s3 == _swap_transpose_square(s2,
                      Slice(a, half_n, n, 0, half_n), Slice(b, 0, half_n, half_n, n))
          IN  _swap_transpose_square(s3,
                      Slice(a, half_n, n, half_n, n), Slice(b, half_n, n, half_n, n))

RECURSIVE transpose_square(_, _)
transpose_square(st, a) ==
  IF st.err # "ok" THEN st
  ELSE IF Len(a.shape) # 3 THEN Raise(st, "ValueError: a must be a matrix of batches")
  ELSE
    LET n == a.shape[1]
        n_ == a.shape[2]
        half_n == n \div 2
    IN  IF n # n_ THEN Raise(st, "ValueError: a must be square")
        ELSE IF lb_exact(n).err # "ok" THEN Raise(st, lb_exact(n).err)
        ELSE IF n <= 1 THEN st
        ELSE
          LET s1 == transpose_square(st, Slice(a, 0, half_n, 0, half_n))
              s2 == _swap_transpose_square(s1,
                      Slice(a, 0, half_n, half_n, n), Slice(a, half_n, n, 0, half_n))
          IN  transpose_square(s2, Slice(a, half_n, n, half_n, n))

-----------------------------------------------------------------------------
(* __init__.py: _interleave and _deinterleave *)

Max(a, b) ==
  IF a >= b THEN a ELSE b

\* entry of _interleave/_deinterleave: instrumentation only
EnterCall(st, n) ==
  [st EXCEPT !.maxHalf = Max(st.maxHalf, n \div 2), !.w = {}, !.ow = {}]

\* mutant: the first half of x is not saved, the loop reads whatever the
\* scratch array held
SaveFirstHalfSkipped(st, off, half_n) ==
  st

\* scratch[:] = x[:half_n]   (scratch is the view scratch[:half_n])
SaveFirstHalf(st, off, half_n) ==
  [st EXCEPT !.scratch.data =
               [k \in DOMAIN st.scratch.data |->
                  IF k < half_n THEN st.data[off + k] ELSE st.scratch.data[k]],
             !.w = st.w \cup (0 .. (half_n - 1))]

RECURSIVE InterleaveLoop(_, _, _, _)
\* mutant: the loop runs from the last pair down to the first
InterleaveLoopReversed(st, off, half_n, i) ==
  IF i >= half_n THEN st
  ELSE LET j == half_n - 1 - i
           d1 == [st.data EXCEPT ![off + 2 * j] = st.scratch.data[j]]
           d2 == [d1 EXCEPT ![off + 2 * j + 1] = d1[off + half_n + j]]
           s1 == [st EXCEPT !.data = d2,
                            !.rbw = st.rbw \/ j \notin st.w,
                            !.stale = st.stale \/ (half_n + j) \in (st.ow \cup {2 * j}),
                            !.ow = st.ow \cup {2 * j, 2 * j + 1}]
       IN  InterleaveLoop(s1, off, half_n, i + 1)

\* for i in range(half_n): x[2 * i] = scratch[i]; x[2 * i + 1] = x[half_n + i]
InterleaveLoop(st, off, half_n, i) ==
  IF i >= half_n THEN st
  ELSE LET d1 == [st.data EXCEPT ![off + 2 * i] = st.scratch.data[i]]
           d2 == [d1 EXCEPT ![off + 2 * i + 1] = d1[off + half_n + i]]
           s1 == [st EXCEPT !.data = d2,
                            !.rbw = st.rbw \/ i \notin st.w,
                            !.stale = st.stale \/ (half_n + i) \in (st.ow \cup {2 * i}),
                            !.ow = st.ow \cup {2 * i, 2 * i + 1}]
       IN  InterleaveLoop(s1, off, half_n, i + 1)

\* x is the contiguous 1-D view of length n at offset off. The arrays of the
\* model are 1-D and of one dtype, so the assertions on len(shape) and dtype
\* hold; a scratch of None fails the first of them with AttributeError.
_interleave(st, off, n) ==
  IF st.err # "ok" THEN st
  ELSE
    LET s0 == EnterCall(st, n)
        half_n == n \div 2
    IN  IF s0.scratch.none THEN Raise(s0, "AttributeError")
        ELSE IF n % 2 # 0 THEN Raise(s0, "AssertionError")
        ELSE IF Cardinality(DOMAIN s0.scratch.data) < half_n
          THEN Raise(s0, "AssertionError")
        ELSE InterleaveLoop(SaveFirstHalf(s0, off, half_n), off, half_n, 0)

RECURSIVE DeinterleaveLoop(_, _, _, _)
\* mutant: the odd elements are compacted and the even ones saved
DeinterleaveLoopSwapped(st, off, half_n, i) ==
  IF i >= half_n THEN st
  ELSE LET d1 == [st.data EXCEPT ![off + i] = st.data[off + 2 * i + 1]]
           sc == [st.scratch.data EXCEPT ![i] = st.data[off + 2 * i]]
       IN  DeinterleaveLoop([st EXCEPT !.data = d1, !.scratch.data = sc,
                                       !.w = st.w \cup {i}],
                            off, half_n, i + 1)

\* for i in range(half_n): x[i] = x[2 * i]; scratch[i] = x[2 * i + 1]
DeinterleaveLoop(st, off, half_n, i) ==
  IF i >= half_n THEN st
  ELSE LET d1 == [st.data EXCEPT ![off + i] = st.data[off + 2 * i]]
           sc == [st.scratch.data EXCEPT ![i] = d1[off + 2 * i + 1]]
       IN  DeinterleaveLoop([st EXCEPT !.data = d1, !.scratch.data = sc,
                                       !.w = st.w \cup {i}],
                            off, half_n, i + 1)

\* x[half_n:] = scratch
RestoreSecondHalf(st, off, half_n) ==
  [st EXCEPT !.data =
               [k \in DOMAIN st.data |->
                  IF off + half_n <= k /\ k < off + 2 * half_n
                    THEN st.scratch.data[k - off - half_n] ELSE st.data[k]],
             !.rbw = st.rbw \/ ~((0 .. (half_n - 1)) \subseteq st.w)]

_deinterleave(st, off, n) ==
  IF st.err # "ok" THEN st
  ELSE
    LET s0 == EnterCall(st, n)
        half_n == n \div 2
    IN  IF s0.scratch.none THEN Raise(s0, "AttributeError")
        ELSE IF n % 2 # 0 THEN Raise(s0, "AssertionError")
        ELSE IF Cardinality(DOMAIN s0.scratch.data) < half_n
          THEN Raise(s0, "AssertionError")
        ELSE RestoreSecondHalf(DeinterleaveLoop(s0, off, half_n, 0), off, half_n)

-----------------------------------------------------------------------------
(* Exact complex arithmetic *)

\* the order of the root of unity w the ring is built on: the longest
\* transform length of the model
RootOrder ==
  Pow2(MaxLb)

RingDim ==
  Max(1, RootOrder \div 2)

RZero ==
  [c \in 1 .. RingDim |-> 0]

\* the integer k as a ring element
RInt(k) ==
  [c \in 1 .. RingDim |-> IF c = 1 THEN k ELSE 0]

RAdd(u, v) ==
  [c \in 1 .. RingDim |-> u[c] + v[c]]

RSub(u, v) ==
  [c \in 1 .. RingDim |-> u[c] - v[c]]

\* u * w^e: the coefficients shift up by e places, and each place that wraps
\* past RingDim changes sign (w^RingDim = -1)
RMulW(u, e) ==
  LET e1 == e % (2 * RingDim)
      sh == e1 % RingDim
      sg == IF e1 >= RingDim THEN -1 ELSE 1
  IN  [c \in 1 .. RingDim |->
         IF c - sh >= 1 THEN sg * u[c - sh] ELSE (-sg) * u[c - sh + RingDim]]

\* mutant: the exponent has the wrong sign, exp(+2*pi*i*k/vec_len)
ExpTwiddleConjugate(k, vec_len) ==
  (RootOrder - ((k * (RootOrder \div vec_len)) % RootOrder)) % RootOrder

\* np.exp(-2j * np.pi * k / vec_len) as a power of w: the exponent e with
\* exp(-2*pi*i*k/vec_len) = w^e (vec_len divides RootOrder)
ExpTwiddle(k, vec_len) ==
  (k * (RootOrder \div vec_len)) % RootOrder

-----------------------------------------------------------------------------
(* __init__.py: the recursive core *)

RECURSIVE _fft_inplace(_, _, _)

RECURSIVE TwiddleRow(_, _, _, _, _, _)
\* for j in range(len): row[j] *= np.exp(-2j * np.pi * (mult * j) / vec_len)
\* row is the view of length len at offset off
TwiddleRow(st, off, len, mult, vec_len, j) ==
  IF st.err # "ok" \/ j >= len THEN st
  ELSE TwiddleRow(
         [st EXCEPT !.data[off + j] = RMulW(st.data[off + j], ExpTwiddle(mult * j, vec_len))],
         off, len, mult, vec_len, j + 1)

RECURSIVE EvenColumns(_, _, _, _, _)
\* for i, row in enumerate(x[..., 0]): _fft_inplace(row); twiddle factors
EvenColumns(st, off, n, vec_len, i) ==
  IF st.err # "ok" \/ i >= n THEN st
  ELSE LET s1 == _fft_inplace(st, off + i * n, n)
           s2 == TwiddleRow(s1, off + i * n, n, i, vec_len, 0)
       IN  EvenColumns(s2, off, n, vec_len, i + 1)

RECURSIVE FftRows(_, _, _, _, _)
\* for row in x: _fft_inplace(row, scratch)   (rows rows of length row_len)
FftRows(st, off, rows, row_len, i) ==
  IF st.err # "ok" \/ i >= rows THEN st
  ELSE FftRows(_fft_inplace(st, off + i * row_len, row_len), off, rows, row_len, i + 1)

\* x.shape = shape, on the contiguous 1-D view of length vec_len at off
Reshape(st, off, vec_len, shape) ==
  IF st.err # "ok" THEN [st |-> st, view |-> View(off, shape)]
  ELSE IF shape[1] * shape[2] * shape[3] # vec_len
    THEN [st |-> Raise(st, "ValueError: cannot reshape"), view |-> View(off, shape)]
    ELSE [st |-> st, view |-> View(off, shape)]

_fft_inplace_evenpow(st, off, vec_len) ==
  IF st.err # "ok" THEN st
  ELSE
    LET n == Pow2(lb_exact(vec_len).val \div 2)
        r == Reshape(st, off, vec_len, <<n, n, 1>>)
        s1 == transpose_square(r.st, r.view)
        s2 == EvenColumns(s1, off, n, vec_len, 0)
        s3 == transpose_square(s2, r.view)
        s4 == FftRows(s3, off, n, n, 0)
    IN  IF lb_exact(vec_len).err # "ok" THEN Raise(st, lb_exact(vec_len).err)
        ELSE transpose_square(s4, r.view)

RECURSIVE OddColumns(_, _, _, _, _)
\* for i, row_pair in enumerate(x): deinterleave, FFT and twiddle the two
\* columns, re-interleave
OddColumns(st, off, col_len, vec_len, i) ==
  IF st.err # "ok" \/ i >= col_len THEN st
  ELSE LET row_len == 2 * col_len
           pair == off + i * row_len
           row0 == pair
           row1 == pair + col_len
           s1 == _deinterleave(st, pair, row_len)
           s2 == _fft_inplace(s1, row0, col_len)
           s3 == TwiddleRow(s2, row0, col_len, 2 * i, vec_len, 0)
           s4 == _fft_inplace(s3, row1, col_len)
           s5 == TwiddleRow(s4, row1, col_len, 2 * i + 1, vec_len, 0)
           s6 == _interleave(s5, pair, row_len)
       IN  OddColumns(s6, off, col_len, vec_len, i + 1)

RECURSIVE DeinterleaveRows(_, _, _, _, _)
\* for row_pair in x: row_pair.shape = row_len,; _deinterleave(row_pair, scratch)
DeinterleaveRows(st, off, rows, row_len, i) ==
  IF st.err # "ok" \/ i >= rows THEN st
  ELSE DeinterleaveRows(_deinterleave(st, off + i * row_len, row_len),
                        off, rows, row_len, i + 1)

_fft_inplace_oddpow(st, off, vec_len) ==
  IF st.err # "ok" THEN st
  ELSE
    LET col_len == Pow2(lb_exact(vec_len).val \div 2)
        row_len == 2 * col_len
        r == Reshape(st, off, vec_len, <<col_len, col_len, 2>>)
        s1 == transpose_square(r.st, r.view)
        s2 == OddColumns(s1, off, col_len, vec_len, 0)
        s3 == transpose_square(s2, r.view)
        s4 == FftRows(s3, off, col_len, row_len, 0)
        s5 == transpose_square(s4, r.view)
    IN  IF lb_exact(vec_len).err # "ok" THEN Raise(st, lb_exact(vec_len).err)
        ELSE DeinterleaveRows(s5, off, col_len, row_len, 0)

\* x is the contiguous 1-D view of length n at offset off, so the assertion
\* x.flags['C_CONTIGUOUS'] holds by construction
_fft_inplace(st, off, n) ==
  IF st.err # "ok" THEN st
  ELSE
    LET s0 == [st EXCEPT !.core = TRUE]
        x0 == st.data[off]
        x1 == st.data[off + 1]
        lb == lb_exact(n)
        is_odd == lb.val % 2 # 0
    IN  IF n = 1 THEN s0
        ELSE IF n = 2
          THEN [s0 EXCEPT !.data = [st.data EXCEPT ![off] = RAdd(x0, x1),
                                                   ![off + 1] = RSub(x0, x1)]]
        ELSE IF lb.err # "ok" THEN Raise(s0, lb.err)
        ELSE IF is_odd THEN _fft_inplace_oddpow(s0, off, n)
        ELSE _fft_inplace_evenpow(s0, off, n)

-----------------------------------------------------------------------------
(* __init__.py: scratch sizing and the public entry point *)

RECURSIVE StripTwos(_)
\* mutant: lb_n is halved once, not as long as it is even
StripTwosOnce(k) ==
  IF k % 2 = 0 THEN k \div 2 ELSE k

\* while lb_n & 1 == 0: lb_n >>= 1
StripTwos(k) ==
  IF k % 2 = 0 THEN StripTwos(k \div 2) ELSE k

\* mutant: half the length that is needed
ScrachLengthHalved(k) ==
  IF k = 0 THEN 0
  ELSE LET lb_res == (StripTwos(k) - 1) \div 2
       IN  IF lb_res = 0 THEN 0 ELSE Pow2(lb_res - 1)

\* mutant: the length is computed from lb_n itself, the even layers not
\* skipped
ScrachLengthNoStrip(k) ==
  IF k = 0 THEN 0
  ELSE LET lb_res == (k - 1) \div 2
       IN  IF lb_res = 0 THEN 0 ELSE Pow2(lb_res)

_scrach_length(k) ==
  IF k = 0 THEN 0
  ELSE LET lb_res == (StripTwos(k) - 1) \div 2
       IN  IF lb_res = 0 THEN 0 ELSE Pow2(lb_res)

\* np.empty_like(x, shape=scratch_len): its cells hold whatever the memory held
empty_like(fill, length) ==
  [none |-> FALSE, data |-> [k \in 0 .. (length - 1) |-> fill[k]]]

\* mutant: no copy is made, the core runs on the caller's buffer
copy_alias(heap, src) ==
  [heap |-> heap, ref |-> src]

\* x.copy(order='C'): a fresh buffer, named "res" on the heap, with x's contents
copy(heap, src) ==
  [heap |-> [heap EXCEPT !["res"] = heap[src]], ref |-> "res"]

\* fft on the caller's complex array xs (heap buffer "x"), with the uninitialised
\* memory holding fill: the outcome of the call
\*   x: the caller's array afterwards; res: the returned array (none if raised)
fft(xs, fill) ==
  LET n == xs.shape[1]
      lb == lb_exact(n)
      len == _scrach_length(lb.val)
      scr == IF len = 0 THEN NoArray ELSE empty_like(fill, len)
      heap0 == [b \in {"x", "res"} |-> IF b = "x" THEN xs.data ELSE <<>>]
      c == copy(heap0, "x")
      st == _fft_inplace(Machine(c.heap[c.ref], scr), 0, n)
      heap1 == [c.heap EXCEPT ![c.ref] = st.data]
  IN  IF Len(xs.shape) # 1
        THEN [err |-> "ValueError: unpack", x |-> xs, res |-> [none |-> TRUE, ref |-> "", data |-> <<>>],
              scratch |-> NoArray, lb_n |-> -1, scratch_len |-> -1, ghost |-> NoGhost]
      ELSE IF lb.err # "ok"
        THEN [err |-> lb.err, x |-> xs, res |-> [none |-> TRUE, ref |-> "", data |-> <<>>],
              scratch |-> NoArray, lb_n |-> -1, scratch_len |-> -1, ghost |-> NoGhost]
      ELSE [err |-> st.err,
            x |-> [xs EXCEPT !.data = heap1["x"]],
            res |-> IF st.err = "ok"
                      THEN [none |-> FALSE, ref |-> c.ref, data |-> heap1[c.ref]]
                      ELSE [none |-> TRUE, ref |-> "", data |-> <<>>],
            scratch |-> st.scratch, lb_n |-> lb.val, scratch_len |-> len,
            ghost |-> GhostOf(st)]

-----------------------------------------------------------------------------
(* Callers of fft *)

NoRes ==
  [none |-> TRUE, ref |-> "", data |-> <<>>]

\* the arrays fft is called on. Of every length 0 .. RootOrder: all ones,
\* the ramp 1, 2, .., N, and the complex ramp (k+1) * i^k. Of every
\* power-of-two length: the unit impulse at each position.
DenseData(kind, N) ==
  [k \in 0 .. (N - 1) |->
     IF kind = "ones" THEN RInt(1)
     ELSE IF kind = "ramp" THEN RInt(k + 1)
     ELSE RMulW(RInt(k + 1), 3 * (RootOrder \div 4) * k)]

ImpulseData(p, N) ==
  [k \in 0 .. (N - 1) |-> IF k = p THEN RInt(1) ELSE RZero]

FftInputs ==
  { [shape |-> <<N>>, data |-> DenseData(kind, N)] :
      N \in 0 .. RootOrder, kind \in {"ones", "ramp", "iramp"} }
  \cup
  { [shape |-> <<Pow2(e)>>, data |-> ImpulseData(p, Pow2(e))] :
      e \in 0 .. MaxLb, p \in 0 .. (RootOrder - 1) }

\* what uninitialised memory may hold: cell k of a fresh allocation
JunkFills ==
  { [k \in 0 .. (RootOrder - 1) |-> RZero],
    [k \in 0 .. (RootOrder - 1) |-> RMulW(RInt(7 + k), k)] }

InitFft ==
  /\ pc = "ready"
  /\ x \in FftInputs
  /\ junk \in JunkFills
  /\ scratch = NoArray
  /\ res = NoRes
  /\ err = "ok"
  /\ hist = <<>>
  /\ lb_n = -1
  /\ scratch_len = -1
  /\ ghost = NoGhost

CallFft ==
  /\ pc = "ready"
  /\ \E r \in {fft(x, junk)} :
       /\ x' = r.x
       /\ res' = r.res
       /\ err' = r.err
       /\ scratch' = r.scratch
       /\ lb_n' = r.lb_n
       /\ scratch_len' = r.scratch_len
       /\ ghost' = r.ghost
  /\ hist' = Append(hist, [op |-> "fft", x |-> x, scratch |-> scratch])
  /\ pc' = "done"
  /\ UNCHANGED junk

NextFft ==
  CallFft

SpecFft ==
  InitFft /\ [][NextFft]_vars

-----------------------------------------------------------------------------
(* Callers of transpose_square *)

Product(shape) ==
  IF Len(shape) = 3 THEN shape[1] * shape[2] * shape[3] ELSE shape[1] * shape[2]

\* the views transpose_square is called on: every shape (n, n_, m) and a
\* few of rank 2, holding either distinct labels or a repeating pattern
TransposeInputs ==
  { [shape |-> sh, data |-> [k \in 0 .. (Product(sh) - 1) |->
                               IF pat = 0 THEN k ELSE (k * k) % 3]] :
      sh \in { <<n, n_, m>> : n \in 0 .. Pow2(MaxLbDim), n_ \in 0 .. Pow2(MaxLbDim),
                              m \in 0 .. MaxGroup }
             \cup { <<n, n_>> : n \in 1 .. 2, n_ \in 1 .. 2 },
      pat \in {0, 1} }

InitTranspose ==
  /\ pc = "ready"
  /\ x \in TransposeInputs
  /\ junk = <<>>
  /\ scratch = NoArray
  /\ res = NoRes
  /\ err = "ok"
  /\ hist = <<>>
  /\ lb_n = -1
  /\ scratch_len = -1
  /\ ghost = NoGhost

CallTranspose ==
  /\ pc = "ready"
  /\ \E st \in {transpose_square(Machine(x.data, NoArray), View(0, x.shape))} :
       /\ x' = [x EXCEPT !.data = st.data]
       /\ err' = st.err
       /\ ghost' = GhostOf(st)
  /\ hist' = Append(hist, [op |-> "transpose_square", x |-> x, scratch |-> scratch])
  /\ pc' = "done"
  /\ UNCHANGED <<scratch, res, junk, lb_n, scratch_len>>

NextTranspose ==
  CallTranspose

SpecTranspose ==
  InitTranspose /\ [][NextTranspose]_vars

-----------------------------------------------------------------------------
(* Callers of _interleave and _deinterleave *)

\* the arrays: every 0/1 array and the array of distinct labels, of every
\* length 0 .. 2 * MaxHalfLen + 1
InterleaveInputs ==
  UNION { { [shape |-> <<n>>, data |-> d] : d \in [0 .. (n - 1) -> {0, 1}] }
            \cup { [shape |-> <<n>>, data |-> [k \in 0 .. (n - 1) |-> 10 + k]] } :
          n \in 0 .. (2 * MaxHalfLen + 1) }

\* the scratch arrays: None, or of length 0 .. MaxHalfLen + 1 with
\* arbitrary contents
ScratchInputs ==
  { NoArray } \cup
  { [none |-> FALSE, data |-> [k \in 0 .. (len - 1) |-> IF pat = 0 THEN 0 ELSE 100 + k]] :
      len \in 0 .. (MaxHalfLen + 1), pat \in {0, 1} }

InitInterleave ==
  /\ pc = "ready"
  /\ x \in InterleaveInputs
  /\ scratch \in ScratchInputs
  /\ junk = <<>>
  /\ res = NoRes
  /\ err = "ok"
  /\ hist = <<>>
  /\ lb_n = -1
  /\ scratch_len = -1
  /\ ghost = NoGhost

Returned(st, op) ==
  /\ x' = [x EXCEPT !.data = st.data]
  /\ scratch' = st.scratch
  /\ err' = st.err
  /\ ghost' = GhostOf(st)
  /\ hist' = Append(hist, [op |-> op, x |-> x, scratch |-> scratch])
  /\ pc' = "done"
  /\ UNCHANGED <<res, junk, lb_n, scratch_len>>

CallInterleave ==
  /\ Len(hist) < MaxCalls
  /\ \E st \in {_interleave(Machine(x.data, scratch), 0, x.shape[1])} :
       Returned(st, "_interleave")

CallDeinterleave ==
  /\ Len(hist) < MaxCalls
  /\ \E st \in {_deinterleave(Machine(x.data, scratch), 0, x.shape[1])} :
       Returned(st, "_deinterleave")

NextInterleave ==
  \/ CallInterleave
  \/ CallDeinterleave

SpecInterleave ==
  InitInterleave /\ [][NextInterleave]_vars

-----------------------------------------------------------------------------
(* Callers of _scrach_length *)

InitScratch ==
  /\ pc = "ready"
  /\ lb_n \in 0 .. MaxScratchLb
  /\ scratch_len = -1
  /\ x = [shape |-> <<>>, data |-> <<>>]
  /\ junk = <<>>
  /\ scratch = NoArray
  /\ res = NoRes
  /\ err = "ok"
  /\ hist = <<>>
  /\ ghost = NoGhost

CallScratchLength ==
  /\ pc = "ready"
  /\ scratch_len' = _scrach_length(lb_n)
  /\ hist' = Append(hist, [op |-> "_scrach_length", x |-> x, scratch |-> scratch])
  /\ pc' = "done"
  /\ UNCHANGED <<x, scratch, res, err, junk, lb_n, ghost>>

NextScratch ==
  CallScratchLength

SpecScratch ==
  InitScratch /\ [][NextScratch]_vars

-----------------------------------------------------------------------------
(* Properties *)

\* the last call, and the caller's arrays as they were before it
Last ==
  hist[Len(hist)]

Before ==
  hist[Len(hist)].x

\* n is a power of two: n >= 1 has no odd divisor but 1
PowerOfTwo(n) ==
  n >= 1 /\ \A d \in 2 .. n : (n % d = 0) => (d % 2 = 0)

\* acc + u * w^e
RMulAdd(acc, u, e) ==
  LET e1 == e % (2 * RingDim)
      sh == e1 % RingDim
      sg == IF e1 >= RingDim THEN -1 ELSE 1
  IN  [c \in 1 .. RingDim |->
         acc[c] + (IF c - sh >= 1 THEN sg * u[c - sh] ELSE (-sg) * u[c - sh + RingDim])]

RECURSIVE DftSum(_, _, _, _, _)
\* acc + the sum over m in n..N-1 of data[m] * exp(-2*pi*i*k*m/N), where
\* exp(-2*pi*i/N) = w^(RootOrder/N)
DftSum(data, N, k, n, acc) ==
  IF n >= N THEN acc
  ELSE DftSum(data, N, k, n + 1, RMulAdd(acc, data[n], k * n * (RootOrder \div N)))

FftReturned ==
  pc = "done" /\ Last.op = "fft"

\* C1: for every power-of-two length N >= 1 and every input x of length N,
\* fft(x) returns an array of length N whose element k is the sum over n in
\* 0..N-1 of x[n] * w^(k*n), w = exp(-2*pi*i/N), in exact arithmetic.
C1_FftIsDft ==
  (FftReturned /\ PowerOfTwo(Before.shape[1])) =>
    LET N == Before.shape[1]
    IN  /\ err = "ok"
        /\ ~res.none
        /\ DOMAIN res.data = 0 .. (N - 1)
        /\ \A k \in 0 .. (N - 1) : res.data[k] = DftSum(Before.data, N, k, 0, RZero)

\* fft([1, 2, .., 8]) returned: the odd-exponent path, with the values of the
\* direct sum at k = 0 and k = 4
C1_Witness ==
  /\ FftReturned
  /\ Before.shape = <<8>>
  /\ \A k \in 0 .. 7 : Before.data[k] = RInt(k + 1)
  /\ ~res.none
  /\ res.data[0] = RInt(36)
  /\ res.data[4] = RInt(-4)

\* C2: fft(x) returns normally when the length N of x is a power of two
\* >= 1, and raises the invalid-length error of lb_exact, before the
\* recursive core is entered, when N is not a power of two (N = 0 included).
C2_FftRaisesOnlyOnLength ==
  FftReturned =>
    IF PowerOfTwo(Before.shape[1])
      THEN err = "ok" /\ ~res.none /\ ghost.core
      ELSE err = "ValueError: not a power of 2" /\ res.none /\ ~ghost.core

\* fft returned normally from a run that went through _interleave and
\* _deinterleave with an allocated scratch array
C2_Witness ==
  /\ FftReturned
  /\ Before.shape = <<32>>
  /\ err = "ok"
  /\ ~scratch.none
  /\ ghost.maxHalf = 4

\* C3: fft(x) never changes the caller's array x, whether it returns or
\* raises, and the array it returns is a buffer distinct from x.
C3_FftLeavesInput ==
  FftReturned => (x = Before /\ (~res.none => res.ref # "x"))

\* fft returned a transform that differs from its input
C3_Witness ==
  /\ FftReturned
  /\ Before.shape = <<8>>
  /\ ~res.none
  /\ res.data # Before.data
  /\ x = Before

\* C7: for every power-of-two N, the length _scrach_length returns for
\* log2(N) is the largest half-length passed to any _interleave or
\* _deinterleave call of the transform of length N, and 0 when there is none.
C7_ScratchIsLargestHalf ==
  (FftReturned /\ PowerOfTwo(Before.shape[1])) =>
    (scratch_len = ghost.maxHalf /\ 2^lb_n = Before.shape[1])

\* a transform whose recursion tree holds calls of several half-lengths
C7_Witness ==
  /\ FftReturned
  /\ Before.shape = <<32>>
  /\ scratch_len = 4
  /\ ghost.maxHalf = 4

\* C10: in every _interleave and _deinterleave call reached from fft, each
\* scratch cell read was written earlier in the same call; so the result of
\* fft is the same whatever the uninitialised scratch array held.
C10_ScratchNeverReadStale ==
  (FftReturned /\ PowerOfTwo(Before.shape[1])) =>
    /\ ~ghost.rbw
    /\ \A fill \in JunkFills \ {junk} :
         LET r == fft(Before, fill)
         IN  r.err = err /\ r.res = res

\* a transform that used a scratch array that held junk, and overwrote it
C10_Witness ==
  /\ FftReturned
  /\ Before.shape = <<32>>
  /\ ~res.none
  /\ ~scratch.none
  /\ junk[0] # RZero
  /\ scratch.data[0] # junk[0]

\* C4: for every power-of-two n >= 1, every group size m and every buffer
\* viewed as shape (n, n, m), transpose_square leaves new[i][j][k] equal to
\* old[j][i][k]: the outer matrix is transposed, the groups keep their order.
C4_TransposeIsTranspose ==
  (pc = "done" /\ Last.op = "transpose_square" /\ Len(x.shape) = 3
     /\ x.shape[1] = x.shape[2] /\ PowerOfTwo(x.shape[1])) =>
    LET n == x.shape[1]
        m == x.shape[3]
    IN  /\ err = "ok"
        /\ DOMAIN x.data = DOMAIN Before.data
        /\ \A i \in 0 .. (n - 1), j \in 0 .. (n - 1), k \in 0 .. (m - 1) :
             x.data[(i * n + j) * m + k] = Before.data[(j * n + i) * m + k]

\* a 4 x 4 matrix of pairs of distinct labels was transposed
C4_Witness ==
  /\ pc = "done"
  /\ Last.op = "transpose_square"
  /\ x.shape = <<4, 4, 2>>
  /\ \A k \in 0 .. 31 : Before.data[k] = k
  /\ err = "ok"
  /\ x.data[2] = 8
  /\ x.data[3] = 9
  /\ x.data[8] = 2

\* C9: transpose_square on a view of shape (n, n, m) with n <= 1 (n = 0 and
\* n = 1) returns without raising and leaves every element unchanged.
C9_SmallTransposeIsNoOp ==
  (pc = "done" /\ Last.op = "transpose_square" /\ Len(x.shape) = 3
     /\ x.shape[1] = x.shape[2] /\ x.shape[1] <= 1) =>
    (err = "ok" /\ x = Before)

\* the caller's arrays satisfy the precondition of _interleave/_deinterleave:
\* even length, a scratch array of at least half that length
ValidPair(xs, scr) ==
  /\ xs.shape[1] % 2 = 0
  /\ ~scr.none
  /\ Cardinality(DOMAIN scr.data) >= xs.shape[1] \div 2

\* C5: for every even length 2h, every x = [a0..a_{h-1}, b0..b_{h-1}] and
\* every scratch array of length >= h, _interleave leaves x[2i] = a_i and
\* x[2i+1] = b_i for all i < h, and reads no position of the second half
\* after the loop has overwritten it.
C5_InterleaveInterleaves ==
  (pc = "done" /\ Last.op = "_interleave" /\ ValidPair(Before, Last.scratch)) =>
    LET h == Before.shape[1] \div 2
    IN  /\ err = "ok"
        /\ DOMAIN x.data = DOMAIN Before.data
        /\ \A i \in 0 .. (h - 1) :
             /\ x.data[2 * i] = Before.data[i]
             /\ x.data[2 * i + 1] = Before.data[h + i]
        /\ ~ghost.stale

\* six distinct labels were interleaved, with a scratch array longer than 3
C5_Witness ==
  /\ pc = "done"
  /\ Len(hist) = 1
  /\ Last.op = "_interleave"
  /\ Before.shape = <<6>>
  /\ \A k \in 0 .. 5 : Before.data[k] = 10 + k
  /\ Cardinality(DOMAIN scratch.data) = 4
  /\ err = "ok"
  /\ x.data[1] = 13
  /\ x.data[2] = 11

\* C6: _interleave and _deinterleave are mutual inverses: on every
\* even-length x and every scratch array of length >= len(x)/2, whatever it
\* holds, _interleave then _deinterleave restores x, and so does
\* _deinterleave then _interleave.
C6_MutualInverses ==
  (Len(hist) >= 2 /\ ValidPair(Before, Last.scratch)
     /\ {hist[Len(hist) - 1].op, Last.op} = {"_interleave", "_deinterleave"}) =>
    (err = "ok" /\ x = hist[Len(hist) - 1].x)

\* six distinct labels were deinterleaved and interleaved back
C6_Witness ==
  /\ Len(hist) = 2
  /\ hist[1].op = "_deinterleave"
  /\ hist[2].op = "_interleave"
  /\ hist[1].x.shape = <<6>>
  /\ \A k \in 0 .. 5 : hist[1].x.data[k] = 10 + k
  /\ hist[2].x.data[1] = 12
  /\ ~scratch.none
  /\ hist[1].scratch.data[0] = 100
  /\ err = "ok"
  /\ x.data[1] = 11

====
